---- MODULE Spec2Model ----
(***************************************************************************)
(* Model of examples/BERT/pipeline.py: pipeline-parallel execution of a    *)
(* chain of shards over micro-batches.                                     *)
(*                                                                         *)
(*   Spec       RPCPipeline.forward running against the deployed actors    *)
(*   SpecBuild  construction of SingleProcessPipeline(RPC)                 *)
(*   SpecRPC    RPCPipeline.__init__ followed by parameter_rrefs           *)
(***************************************************************************)
EXTENDS Integers, Sequences, FiniteSets, TLC

\* ------------------------------------------------------------------ bounds
MaxShards == 2
MaxRows == 4
MaxSplit == 3
MaxMicro == 2
\* most calls of a shard's forward (shards times micro-batches) in one forward
MaxCalls == 5
MaxUnits == 3
MaxWorkers == 2
\* most calls of parameter_rrefs on one pipeline
MaxParamCalls == 2
\* most calls that never complete in one forward, and the most calls of a
\* forward that has such calls
MaxHung == 1
MaxHungCalls == 4
\* most calls of a forward whose termination is checked
MaxLiveCalls == 4

\* ------------------------------------------------------------ input values
\* names of the opaque computation units used as shards
UnitNames == {"mul2", "add1"}

\* the remote_base_class argument of RPCPipeline
Classes == {"RemoteBaseCPURPC", "RemoteBaseCUDARPC", "SingleProcessPipelineRPC"}

\* the device a worker's shard is bound to
DeviceOf(i) == IF i % 2 = 1 THEN "cuda:0" ELSE "cuda:1"

\* --------------------------------------------------------------- tensors
\* a tensor is its rows along dim 0 and the device it lives on
Tensor(rows, ctx) == [rows |-> rows, ctx |-> ctx]

NoTensor == Tensor(<<>>, "none")

\* x.to(device)
To(x, device) == Tensor(x.rows, device)

\* a return that leaves the tensor on the device it was computed on
StayOnDevice(x) == x

\* x.cpu()
Cpu(x) == To(x, "cpu")

\* what a computation unit does to one row
ApplyRow(u, r) ==
    CASE u = "mul2" -> 2 * r
      [] u = "add1" -> r + 1
      [] OTHER -> r

\* a computation unit applied to a tensor: row-wise, the device is kept
ApplyUnit(u, x) == Tensor([j \in 1..Len(x.rows) |-> ApplyRow(u, x.rows[j])], x.ctx)

\* ToDevice.forward
ToDeviceForward(device, x) == To(x, device)

RECURSIVE SplitRowsGreedy(_, _)
\* split that lets a chunk grow by one row instead of leaving a chunk of one
SplitRowsGreedy(rows, size) ==
    IF Len(rows) <= size + 1
    THEN <<rows>>
    ELSE <<SubSeq(rows, 1, size)>> \o SplitRowsGreedy(SubSeq(rows, size + 1, Len(rows)), size)

RECURSIVE SplitRows(_, _)
\* Tensor.split(split_size, dim=0) on the rows: chunks of split_size rows, the
\* last chunk holds what is left
SplitRows(rows, size) ==
    IF Len(rows) <= size
    THEN <<rows>>
    ELSE <<SubSeq(rows, 1, size)>> \o SplitRows(SubSeq(rows, size + 1, Len(rows)), size)

\* xs.split(self.split_size, dim=0)
Split(xs, size) ==
    LET chunks == SplitRows(xs.rows, size)
    IN  [k \in 1..Len(chunks) |-> Tensor(chunks[k], xs.ctx)]

RECURSIVE CatRows(_)
CatRows(ts) ==
    IF ts = <<>> THEN <<>> ELSE ts[1].rows \o CatRows(Tail(ts))

\* torch.cat(tensors): rows in list order
Cat(ts) == Tensor(CatRows(ts), IF ts = <<>> THEN "cpu" ELSE ts[1].ctx)

\* number of micro-batches split produces
NumChunks(n, size) == (n + size - 1) \div size

\* ------------------------------------------------- nn.Sequential modules
\* a module of a Sequential: a shard (unit, placed on device) or a ToDevice
ShardModule(u, device) == [kind |-> "Shard", unit |-> u, device |-> device]

ToDeviceModule(device) == [kind |-> "ToDevice", unit |-> "none", device |-> device]

\* f'Shard({device})' and f'ToDevice({device})'
ModuleName(kind, device) == <<kind, device>>

IndexOfName(mods, name) ==
    IF \E j \in 1..Len(mods) : mods[j].name = name
    THEN CHOOSE j \in 1..Len(mods) : mods[j].name = name
    ELSE 0

\* nn.Module.add_module: _modules[name] = module on an ordered dict, so a name
\* already present keeps its position and gets the new module
AddModule(mods, name, m) ==
    LET j == IndexOfName(mods, name)
    IN  IF j = 0
        THEN Append(mods, [name |-> name, module |-> m])
        ELSE [mods EXCEPT ![j] = [name |-> name, module |-> m]]

\* the body of the loop "for i, shard in enumerate(shards)" for one i
AddShard(mods, shardList, deviceList, i) ==
    LET withShard == AddModule(mods, ModuleName("Shard", deviceList[i]),
                               ShardModule(shardList[i], deviceList[i]))
    IN  IF i # Len(shardList)
        THEN AddModule(withShard, ModuleName("ToDevice", deviceList[i + 1]),
                       ToDeviceModule(deviceList[i + 1]))
        ELSE withShard

RECURSIVE AddShardsFrom(_, _, _, _)
AddShardsFrom(mods, shardList, deviceList, i) ==
    IF i > Len(shardList)
    THEN mods
    ELSE AddShardsFrom(AddShard(mods, shardList, deviceList, i), shardList, deviceList, i + 1)

\* the module list SingleProcessPipelineRPC.__init__ leaves in self.underlying
BuildSequential(shardList, deviceList) == AddShardsFrom(<<>>, shardList, deviceList, 1)

RECURSIVE RunFrom(_, _, _)
RunFrom(mods, j, x) ==
    IF j > Len(mods)
    THEN x
    ELSE RunFrom(mods, j + 1,
                 IF mods[j].module.kind = "Shard"
                 THEN ApplyUnit(mods[j].module.unit, x)
                 ELSE ToDeviceForward(mods[j].module.device, x))

\* nn.Sequential.forward: the modules in order
RunSequential(mods, x) == RunFrom(mods, 1, x)

\* ------------------------------------------------------------ the actors
\* rpc.remote(worker, remote_base_class, args=(shard, device)): the actor the
\* class constructor builds on the worker
Remote(worker, cls, shard, device) ==
    [worker |-> worker,
     cls |-> cls,
     underlying |-> IF cls = "SingleProcessPipelineRPC"
                    THEN BuildSequential(shard, device)
                    ELSE <<[name |-> ModuleName("Shard", device),
                            module |-> ShardModule(shard, device)]>>,
     device |-> IF cls = "SingleProcessPipelineRPC" THEN "none" ELSE device,
     devices |-> IF cls = "SingleProcessPipelineRPC" THEN device ELSE <<>>]

\* the device forward moves its input to: self.devices[0] or self.device
InputDevice(actor) ==
    IF actor.cls = "SingleProcessPipelineRPC" THEN actor.devices[1] ELSE actor.device

\* self.underlying(x) of an actor
Underlying(actor, x) == RunSequential(actor.underlying, x)


\* ------------------------------------------------------------------ state
VARIABLES
    shards,        \* RPCPipeline.shards: the actors in pipeline order
    split_size,    \* RPCPipeline.split_size
    xs,            \* the batch given to forward
    lock,          \* lock[i]: the _lock of actor i is held
    opc,           \* where the orchestrator is in RPCPipeline.forward
    micro,         \* the micro-batches xs.split produced
    curK,          \* forward: index of the micro-batch being dispatched
    curI,          \* forward: index of the shard being dispatched to
    x_rref,        \* forward: the handle passed to the next shard
    out_futures,   \* forward: the futures collected so far
    result,        \* what forward returned
    inv,           \* inv[<<k, i>>]: the call of shard i's forward for micro-batch k
    log,           \* the calls of self.underlying, in the order they ran
    donelog,       \* the futures of out_futures, in the order they completed
    hung,          \* the calls whose self.underlying never returns
    pipeline_class,   \* the class being constructed: SingleProcessPipeline(RPC)
    pipeline_shards,  \* __init__ of that class: the argument shards
    devices,          \* __init__ of that class: the argument devices
    bpc,              \* where that __init__ is
    placed,           \* placed[i]: the device shards[i] was moved to by s.to(d)
    modules,          \* the modules added so far, in the order of _modules
    bI,               \* the index of the loop that adds the modules
    workers_to_shards,   \* RPCPipeline.__init__: the dict, as its items in order
    workers_to_devices,  \* RPCPipeline.__init__: the dict, as its items in order
    remote_base_class,   \* RPCPipeline.__init__: the actor class
    rpc_pc,              \* where RPCPipeline.__init__ / parameter_rrefs is
    actors,              \* the actors rpc.remote has created so far
    remote_params,       \* parameter_rrefs: the list being built
    pI,                  \* parameter_rrefs: index of the shard asked next
    returned_params,     \* what parameter_rrefs returned
    previous_params      \* what the earlier calls of parameter_rrefs returned

fwdVars == <<split_size, xs, lock, opc, micro, curK, curI, x_rref,
             out_futures, result, inv, log, donelog, hung>>

buildVars == <<pipeline_class, pipeline_shards, devices, bpc, placed, modules, bI>>

rpcVars == <<workers_to_shards, workers_to_devices, remote_base_class, rpc_pc,
             actors, remote_params, pI, returned_params, previous_params>>

vars == <<shards, fwdVars, buildVars, rpcVars>>

NShards == Len(shards)

NMicro == Len(micro)

\* a handle <<k, i>> is the result of shard i for micro-batch k; <<k, 0>> is
\* the RRef(x) the orchestrator wraps around micro-batch k
IsLocal(h) == h[2] = 0

\* the call has not been issued yet
IdleCall == [st |-> "idle", arg |-> <<0, 0>>, x |-> NoTensor, out |-> NoTensor, err |-> "none"]

\* a handle that counts as realized as soon as its call has been issued
ReadyOnceIssued(h) == IF IsLocal(h) THEN TRUE ELSE inv[h].st # "idle"

\* the handle holds a value
Ready(h) == IF IsLocal(h) THEN TRUE ELSE inv[h].st = "done"

\* the handle holds an error
Broken(h) == IF IsLocal(h) THEN FALSE ELSE inv[h].st = "failed"

\* x_rref.to_here() / fut.wait() on a handle that holds a value
ValueOf(h) == IF IsLocal(h) THEN micro[h[1]] ELSE inv[h].out

\* the calls that are inside "with self._lock"
InLock == {"locked", "lockedFetched"}

HostRelocating(cls) == cls \in {"RemoteBaseCPURPC", "SingleProcessPipelineRPC"}

\* ----------------------------------------------------------------- Init
\* the pipeline RPCPipeline.__init__ builds for the workers 1..n
Deployed(cls, units) ==
    [i \in 1..Len(units) |->
        IF cls = "SingleProcessPipelineRPC"
        THEN Remote(i, cls, <<units[i]>>, <<DeviceOf(i)>>)
        ELSE Remote(i, cls, units[i], DeviceOf(i))]

\* no construction of a local pipeline is going on
IdleBuild ==
    /\ pipeline_class = "none"
    /\ pipeline_shards = <<>>
    /\ devices = <<>>
    /\ bpc = "off"
    /\ placed = <<>>
    /\ modules = <<>>
    /\ bI = 0

\* no RPCPipeline.__init__ or parameter_rrefs is going on
IdleRPC ==
    /\ workers_to_shards = <<>>
    /\ workers_to_devices = <<>>
    /\ remote_base_class = "none"
    /\ rpc_pc = "off"
    /\ actors = <<>>
    /\ remote_params = <<>>
    /\ pI = 0
    /\ returned_params = <<>>
    /\ previous_params = <<>>

\* no forward is going on
IdleForward ==
    /\ split_size = 1
    /\ xs = NoTensor
    /\ lock = <<>>
    /\ opc = "off"
    /\ micro = <<>>
    /\ curK = 0
    /\ curI = 0
    /\ x_rref = <<0, 0>>
    /\ out_futures = <<>>
    /\ result = NoTensor
    /\ inv = <<>>
    /\ log = <<>>
    /\ donelog = <<>>
    /\ hung = {}

\* a pipeline and a batch that make at most maxCalls calls, of which as many
\* as a number of hungSizes never complete
ForwardInputs(maxCalls, hungSizes) ==
    \E cls \in Classes, n \in 1..MaxShards, rows \in 1..MaxRows, size \in 1..MaxSplit :
        /\ NumChunks(rows, size) <= MaxMicro
        /\ n * NumChunks(rows, size) <= maxCalls
        /\ \E units \in [1..n -> UnitNames] : shards = Deployed(cls, units)
        /\ xs = Tensor([j \in 1..rows |-> j], "cpu")
        /\ split_size = size
        /\ hung \in {c \in SUBSET ((1..NumChunks(rows, size)) \X (1..n)) :
                        Cardinality(c) \in hungSizes}

\* the state in which forward is called
ForwardStart ==
    /\ lock = [i \in 1..Len(shards) |-> FALSE]
    /\ opc = "split"
    /\ micro = <<>>
    /\ curK = 0
    /\ curI = 0
    /\ x_rref = <<0, 0>>
    /\ out_futures = <<>>
    /\ result = NoTensor
    /\ inv = <<>>
    /\ log = <<>>
    /\ donelog = <<>>

\* forward is called on a pipeline all of whose calls complete
InitForward == ForwardInputs(MaxCalls, {0}) /\ ForwardStart

Init == InitForward /\ IdleBuild /\ IdleRPC

\* --------------------------------------------------- RPCPipeline.forward
\* out_futures = [] and xs.split(self.split_size, dim=0); x_rref = RRef(x) for
\* the first micro-batch
ForwardSplit ==
    /\ opc = "split"
    /\ micro' = Split(xs, split_size)
    /\ inv' = [h \in (1..Len(micro')) \X (1..NShards) |-> IdleCall]
    /\ curK' = 1
    /\ curI' = 1
    /\ x_rref' = <<1, 0>>
    /\ out_futures' = <<>>
    /\ opc' = "dispatch"
    /\ UNCHANGED <<buildVars, rpcVars, hung>>
    /\ UNCHANGED <<shards, split_size, xs, lock, result, log, donelog>>

\* the loop over self.shards[:-1] without rebinding x_rref: every shard is
\* handed the RRef of the micro-batch itself
DispatchRemoteUnchained ==
    /\ opc = "dispatch"
    /\ curI < NShards
    /\ inv' = [inv EXCEPT ![<<curK, curI>>] = [@ EXCEPT !.st = "issued", !.arg = x_rref]]
    /\ curI' = curI + 1
    /\ UNCHANGED <<buildVars, rpcVars, hung>>
    /\ UNCHANGED <<shards, split_size, xs, lock, opc, micro, curK, x_rref, out_futures,
                   result, log, donelog>>

\* x_rref = shard.remote().forward(x_rref) for a shard of self.shards[:-1]
DispatchRemote ==
    /\ opc = "dispatch"
    /\ curI < NShards
    /\ inv' = [inv EXCEPT ![<<curK, curI>>] = [@ EXCEPT !.st = "issued", !.arg = x_rref]]
    /\ x_rref' = <<curK, curI>>
    /\ curI' = curI + 1
    /\ UNCHANGED <<buildVars, rpcVars, hung>>
    /\ UNCHANGED <<shards, split_size, xs, lock, opc, micro, curK, out_futures,
                   result, log, donelog>>

\* a call of the last shard that first waits for the value behind x_rref
DispatchAsyncBlocking ==
    /\ opc = "dispatch"
    /\ curI = NShards
    /\ Ready(x_rref)
    /\ inv' = [inv EXCEPT ![<<curK, NShards>>] = [@ EXCEPT !.st = "issued", !.arg = x_rref]]
    /\ out_futures' = Append(out_futures, <<curK, NShards>>)
    /\ IF curK < NMicro
       THEN /\ curK' = curK + 1
            /\ curI' = 1
            /\ x_rref' = <<curK + 1, 0>>
            /\ opc' = "dispatch"
       ELSE /\ opc' = "wait"
            /\ UNCHANGED <<curK, curI, x_rref>>
    /\ UNCHANGED <<buildVars, rpcVars, hung>>
    /\ UNCHANGED <<shards, split_size, xs, lock, micro, result, log, donelog>>

\* z_fut = self.shards[-1].rpc_async().forward(x_rref); out_futures.append(z_fut)
\* and the step to the next micro-batch or to the wait
DispatchAsync ==
    /\ opc = "dispatch"
    /\ curI = NShards
    /\ inv' = [inv EXCEPT ![<<curK, NShards>>] = [@ EXCEPT !.st = "issued", !.arg = x_rref]]
    /\ out_futures' = Append(out_futures, <<curK, NShards>>)
    /\ IF curK < NMicro
       THEN /\ curK' = curK + 1
            /\ curI' = 1
            /\ x_rref' = <<curK + 1, 0>>
            /\ opc' = "dispatch"
       ELSE /\ opc' = "wait"
            /\ UNCHANGED <<curK, curI, x_rref>>
    /\ UNCHANGED <<buildVars, rpcVars, hung>>
    /\ UNCHANGED <<shards, split_size, xs, lock, micro, result, log, donelog>>

\* the values in the order in which the futures completed
WaitAllValuesAsCompleted(futs) == [j \in 1..Len(futs) |-> ValueOf(<<donelog[j], NShards>>)]

\* wait_all that is satisfied by futures that hold an error
AllSettled(futs) ==
    \A j \in 1..Len(futs) : inv[futs[j]].st \in {"done", "failed"}

\* every future of the list holds a value
AllReady(futs) == \A j \in 1..Len(futs) : Ready(futs[j])

\* the values in the order in which the last shard computed them
WaitAllValuesAsComputed(futs) ==
    [j \in 1..Len(futs) |->
        ValueOf(SelectSeq(log, LAMBDA h : h[2] = NShards)[j])]

\* torch.futures.wait_all on futures that all hold a value, then torch.cat: the
\* values are taken in the order of the list
WaitAllValues(futs) == [j \in 1..Len(futs) |-> ValueOf(futs[j])]

WaitAllReturn ==
    /\ opc = "wait"
    /\ AllReady(out_futures)
    /\ result' = Cat(WaitAllValues(out_futures))
    /\ opc' = "returned"
    /\ UNCHANGED <<buildVars, rpcVars, hung>>
    /\ UNCHANGED <<shards, split_size, xs, lock, micro, curK, curI, x_rref,
                   out_futures, inv, log, donelog>>

\* a wait_all that gives up on its own, with no future holding an error
WaitAllRaiseOnTimeout ==
    /\ opc = "wait"
    /\ opc' = "raised"
    /\ UNCHANGED <<buildVars, rpcVars, hung>>
    /\ UNCHANGED <<shards, split_size, xs, lock, micro, curK, curI, x_rref,
                   out_futures, result, inv, log, donelog>>

\* torch.futures.wait_all raises as soon as one of the futures holds an error
WaitAllRaise ==
    /\ opc = "wait"
    /\ \E j \in 1..Len(out_futures) : Broken(out_futures[j])
    /\ opc' = "raised"
    /\ UNCHANGED <<buildVars, rpcVars, hung>>
    /\ UNCHANGED <<shards, split_size, xs, lock, micro, curK, curI, x_rref,
                   out_futures, result, inv, log, donelog>>


\* ------------------------------------------------ the actors' forward
Calls == DOMAIN inv

\* the future of the last shard completes (with a value or an error)
Completed(h) == IF h[2] = NShards THEN Append(donelog, h[1]) ELSE donelog

\* a lock that lets every caller in
CanAcquireAlways(l, i) == TRUE

\* a with block that releases only on the normal exit
ExitLockKeepOnError(l, i, raised) == IF raised THEN l ELSE [l EXCEPT ![i] = FALSE]

\* one lock for all the stages: nobody enters while any stage is locked
CanAcquireNoneHeld(l, i) == \A j \in 1..Len(l) : ~l[j]

\* threading.Lock: acquire blocks while the lock is held
CanAcquire(l, i) == ~l[i]

\* leaving "with self._lock", normally or by an exception
ExitLock(l, i, raised) == [l EXCEPT ![i] = FALSE]

\* RemoteBaseCPURPC.forward and SingleProcessPipelineRPC.forward:
\* x = x_rref.to_here().to(device), before the lock is taken
Fetch(h) ==
    /\ h \in Calls
    /\ HostRelocating(shards[h[2]].cls)
    /\ inv[h].st = "issued"
    /\ \/ /\ Ready(inv[h].arg)
          /\ inv' = [inv EXCEPT ![h] = [@ EXCEPT !.st = "fetched",
                         !.x = To(ValueOf(inv[h].arg), InputDevice(shards[h[2]]))]]
          /\ UNCHANGED donelog
       \/ /\ Broken(inv[h].arg)
          /\ inv' = [inv EXCEPT ![h] = [@ EXCEPT !.st = "failed", !.err = "upstream"]]
          /\ donelog' = Completed(h)
    /\ UNCHANGED <<buildVars, rpcVars, hung>>
    /\ UNCHANGED <<shards, split_size, xs, lock, opc, micro, curK, curI, x_rref,
                   out_futures, result, log>>

\* "with self._lock:" is entered: after the fetch in the host-relocating
\* classes, first thing in RemoteBaseCUDARPC.forward
Acquire(h) ==
    /\ h \in Calls
    /\ inv[h].st = IF HostRelocating(shards[h[2]].cls) THEN "fetched" ELSE "issued"
    /\ CanAcquire(lock, h[2])
    /\ lock' = [lock EXCEPT ![h[2]] = TRUE]
    /\ inv' = [inv EXCEPT ![h] = [@ EXCEPT !.st = "locked"]]
    /\ UNCHANGED <<buildVars, rpcVars, hung>>
    /\ UNCHANGED <<shards, split_size, xs, opc, micro, curK, curI, x_rref,
                   out_futures, result, log, donelog>>

\* RemoteBaseCUDARPC.forward: x_rref.to_here() inside the lock, no relocation
FetchLocked(h) ==
    /\ h \in Calls
    /\ ~HostRelocating(shards[h[2]].cls)
    /\ inv[h].st = "locked"
    /\ \/ /\ Ready(inv[h].arg)
          /\ inv' = [inv EXCEPT ![h] = [@ EXCEPT !.st = "lockedFetched",
                                                  !.x = ValueOf(inv[h].arg)]]
          /\ UNCHANGED <<lock, donelog>>
       \/ /\ Broken(inv[h].arg)
          /\ inv' = [inv EXCEPT ![h] = [@ EXCEPT !.st = "failed", !.err = "upstream"]]
          /\ lock' = ExitLock(lock, h[2], TRUE)
          /\ donelog' = Completed(h)
    /\ UNCHANGED <<buildVars, rpcVars, hung>>
    /\ UNCHANGED <<shards, split_size, xs, opc, micro, curK, curI, x_rref,
                   out_futures, result, log>>

\* out = self.underlying(x) inside the lock and the exit of the with block; the
\* unit returns or raises, unless this is a call in which it never does.
\* RemoteBaseCUDARPC.forward returns from inside the block, the other classes
\* still have out.cpu() to do
Compute(h) ==
    /\ h \in Calls
    /\ h \notin hung
    /\ inv[h].st = IF HostRelocating(shards[h[2]].cls) THEN "locked" ELSE "lockedFetched"
    /\ log' = Append(log, h)
    /\ \/ /\ lock' = ExitLock(lock, h[2], FALSE)
          /\ IF HostRelocating(shards[h[2]].cls)
             THEN /\ inv' = [inv EXCEPT ![h] = [@ EXCEPT !.st = "unlocked",
                                 !.out = Underlying(shards[h[2]], inv[h].x)]]
                  /\ UNCHANGED donelog
             ELSE /\ inv' = [inv EXCEPT ![h] = [@ EXCEPT !.st = "done",
                                 !.out = Underlying(shards[h[2]], inv[h].x)]]
                  /\ donelog' = Completed(h)
       \/ /\ lock' = ExitLock(lock, h[2], TRUE)
          /\ inv' = [inv EXCEPT ![h] = [@ EXCEPT !.st = "failed", !.err = "compute"]]
          /\ donelog' = Completed(h)
    /\ UNCHANGED <<buildVars, rpcVars, hung>>
    /\ UNCHANGED <<shards, split_size, xs, opc, micro, curK, curI, x_rref,
                   out_futures, result>>

\* return out.cpu() of the host-relocating classes
Return(h) ==
    /\ h \in Calls
    /\ inv[h].st = "unlocked"
    /\ inv' = [inv EXCEPT ![h] = [@ EXCEPT !.st = "done", !.out = Cpu(inv[h].out)]]
    /\ donelog' = Completed(h)
    /\ UNCHANGED <<buildVars, rpcVars, hung>>
    /\ UNCHANGED <<shards, split_size, xs, lock, opc, micro, curK, curI, x_rref,
                   out_futures, result, log>>

Next ==
    \/ ForwardSplit
    \/ DispatchRemote
    \/ DispatchAsync
    \/ WaitAllReturn
    \/ WaitAllRaise
    \/ \E h \in Calls : Fetch(h)
    \/ \E h \in Calls : Acquire(h)
    \/ \E h \in Calls : FetchLocked(h)
    \/ \E h \in Calls : Compute(h)
    \/ \E h \in Calls : Return(h)

Spec == Init /\ [][Next]_vars


\* ------------------------------------------------------------ properties
\* the calls of shard i
CallsOf(i) == {h \in Calls : h[2] = i}

\* the future of micro-batch k
FutureOf(k) == <<k, NShards>>

\* C1: whatever the interleaving of the stages and the order in which the
\* futures complete, what forward returns is the concatenation of the outputs
\* of the micro-batches in split order: future k of the awaited list is the
\* one of micro-batch k and its output is part k of the result.
OrderPreserved ==
    opc = "returned" =>
        /\ Len(out_futures) = NMicro
        /\ \A k \in 1..NMicro : out_futures[k] = FutureOf(k)
        /\ result.rows = CatRows([k \in 1..NMicro |-> inv[FutureOf(k)].out])

\* forward returned although the future of the second micro-batch completed
\* before the one of the first
ReturnedAfterOutOfOrderCompletion ==
    /\ opc = "returned"
    /\ NMicro >= 2
    /\ donelog[1] = 2

\* C2: on every stage, of every class, at most one call is inside the block
\* guarded by the stage's lock.
MutualExclusion ==
    \A i \in 1..NShards :
        Cardinality({h \in CallsOf(i) : inv[h].st \in InLock}) <= 1

\* one call of a stage is inside the lock while another call of the same stage
\* has been issued and waits to enter
OverlappingCallsSerialized ==
    \E i \in 1..NShards : \E h, g \in CallsOf(i) :
        /\ h # g
        /\ inv[h].st \in InLock
        /\ inv[g].st = IF HostRelocating(shards[i].cls) THEN "fetched" ELSE "issued"

\* C3: when any call of any stage failed for a micro-batch, forward does not
\* return: a returned output never goes with a failed call and always holds
\* the rows of every micro-batch.
AllOrNothing ==
    opc = "returned" =>
        /\ \A h \in Calls : inv[h].st # "failed"
        /\ Len(result.rows) = Len(xs.rows)

\* forward raised: the first micro-batch completed with a value, the second
\* failed at an earlier stage of its chain and its future carries the error
RaisedWithCompletedMicroBatch ==
    /\ opc = "raised"
    /\ NMicro >= 2
    /\ NShards >= 2
    /\ inv[FutureOf(1)].st = "done"
    /\ inv[<<2, 1>>].err = "compute"
    /\ inv[FutureOf(2)].err = "upstream"

\* C4: once a call has failed, its stage's lock is not left held by it: the
\* lock of the stage is held only if another call is inside the locked block.
LockFreeAfterFailure ==
    \A h \in Calls :
        (inv[h].st = "failed" /\ lock[h[2]]) =>
            \E g \in CallsOf(h[2]) : g # h /\ inv[g].st \in InLock

\* a call failed inside the locked block and a later call of the same stage
\* holds the lock
LockTakenAfterFailure ==
    \E h \in Calls : \E g \in CallsOf(h[2]) :
        /\ g # h
        /\ inv[h].st = "failed"
        /\ inv[h].err = "compute"
        /\ inv[g].st \in InLock

\* the transform of stage i on one row
StageRow(i, r) == Underlying(shards[i], Tensor(<<r>>, "cpu")).rows[1]

RECURSIVE ChainRow(_, _)
\* f_i(... f_1(r) ...)
ChainRow(i, r) == IF i = 0 THEN r ELSE StageRow(i, ChainRow(i - 1, r))

\* the calls of the log that belong to micro-batch k
LogOf(k) == SelectSeq(log, LAMBDA h : h[1] = k)

\* the units of the shards, in pipeline order
UnitsOfShards == [i \in 1..NShards |-> shards[i].underlying[1].module.unit]

EndToEndScenario ==
    /\ UnitsOfShards = <<"mul2", "add1">>
    /\ split_size = 2
    /\ xs.rows = <<1, 2, 3, 4>>

\* C5: when forward returns, every micro-batch went through every shard
\* exactly once and in pipeline order, and every row of the output is the row
\* of the input taken through the transforms of all the stages in order; with
\* shards "multiply by 2" and "add 1", split size 2 and input [1,2,3,4] the
\* output is [3,5,7,9].
ChainedThroughEveryShard ==
    opc = "returned" =>
        /\ \A k \in 1..NMicro : LogOf(k) = [i \in 1..NShards |-> <<k, i>>]
        /\ result.rows = [j \in 1..Len(xs.rows) |-> ChainRow(NShards, xs.rows[j])]
        /\ EndToEndScenario => result.rows = <<3, 5, 7, 9>>

\* the end-to-end scenario has returned
EndToEndReturned ==
    /\ opc = "returned"
    /\ EndToEndScenario
    /\ NMicro = 2

\* C6: split makes ceil(N / split_size) micro-batches of at most split_size
\* rows, all of them full except possibly the last, whose concatenation in
\* split order is the batch; the output of forward has the N rows of the batch.
SplitRoundTrip ==
    opc # "split" =>
        /\ NMicro * split_size >= Len(xs.rows)
        /\ (NMicro - 1) * split_size < Len(xs.rows)
        /\ \A k \in 1..NMicro : Len(micro[k].rows) <= split_size
        /\ \A k \in 1..(NMicro - 1) : Len(micro[k].rows) = split_size
        /\ Cat(micro) = xs
        /\ opc = "returned" => Len(result.rows) = Len(xs.rows)

\* forward returned for a batch whose size is not a multiple of the split size
UnevenBatchReturned ==
    /\ opc = "returned"
    /\ NMicro = 2
    /\ Len(xs.rows) % split_size # 0
    /\ Len(micro[2].rows) < split_size


\* ---------------- SingleProcessPipeline / SingleProcessPipelineRPC.__init__
LocalClasses == {"SingleProcessPipeline", "SingleProcessPipelineRPC"}

\* the devices the lists of devices are made of
BuildDevices == {"cuda:0", "cuda:1"}

\* the lists of at most n elements of S
SeqsUpTo(S, n) == UNION {[1..m -> S] : m \in 0..n}

InitBuild ==
    /\ pipeline_class \in LocalClasses
    /\ pipeline_shards \in SeqsUpTo(UnitNames, MaxUnits)
    /\ devices \in SeqsUpTo(BuildDevices, MaxUnits)
    /\ bpc = "assert"
    /\ placed = [i \in 1..Len(pipeline_shards) |-> "none"]
    /\ modules = <<>>
    /\ bI = 0
    /\ shards = <<>>
    /\ IdleForward
    /\ IdleRPC

\* a check that only asks for enough devices
LengthsAgreeLoose(shardList, deviceList) == Len(shardList) <= Len(deviceList)

\* the condition of "assert len(shards) == len(devices)"
LengthsAgree(shardList, deviceList) == Len(shardList) = Len(deviceList)

\* super().__init__() and the assert: the first statements of __init__
BuildAssert ==
    /\ bpc = "assert"
    /\ bpc' = IF LengthsAgree(pipeline_shards, devices) THEN "relocate" ELSE "failed"
    /\ UNCHANGED <<pipeline_class, pipeline_shards, devices, placed, modules, bI>>
    /\ UNCHANGED <<shards, fwdVars, rpcVars>>

\* one task of the executor: s.to(d) for shards[i], devices[i]; the tasks run
\* in any order
Relocate(i) ==
    /\ bpc = "relocate"
    /\ i \in 1..Len(pipeline_shards)
    /\ placed[i] = "none"
    /\ placed' = [placed EXCEPT ![i] = devices[i]]
    /\ UNCHANGED <<pipeline_class, pipeline_shards, devices, bpc, modules, bI>>
    /\ UNCHANGED <<shards, fwdVars, rpcVars>>

\* concurrent.futures.wait returns and the executor is left
RelocateWait ==
    /\ bpc = "relocate"
    /\ \A i \in 1..Len(pipeline_shards) : placed[i] # "none"
    /\ bpc' = "add"
    /\ bI' = 1
    /\ UNCHANGED <<pipeline_class, pipeline_shards, devices, placed, modules>>
    /\ UNCHANGED <<shards, fwdVars, rpcVars>>

\* one round of "for i, shard in enumerate(shards)": the shard and, unless it
\* is the last, the ToDevice of the next device
AddStep ==
    /\ bpc = "add"
    /\ bI <= Len(pipeline_shards)
    /\ modules' = AddShard(modules, pipeline_shards, devices, bI)
    /\ bI' = bI + 1
    /\ UNCHANGED <<pipeline_class, pipeline_shards, devices, bpc, placed>>
    /\ UNCHANGED <<shards, fwdVars, rpcVars>>

\* the loop is over: __init__ returns
BuildDone ==
    /\ bpc = "add"
    /\ bI > Len(pipeline_shards)
    /\ bpc' = "built"
    /\ UNCHANGED <<pipeline_class, pipeline_shards, devices, placed, modules, bI>>
    /\ UNCHANGED <<shards, fwdVars, rpcVars>>

NextBuild ==
    \/ BuildAssert
    \/ \E i \in 1..MaxUnits + 1 : Relocate(i)
    \/ RelocateWait
    \/ AddStep
    \/ BuildDone

SpecBuild == InitBuild /\ [][NextBuild]_vars

\* the modules of the pipeline, in order
ModuleList == [j \in 1..Len(modules) |-> modules[j].module]

\* the units among the modules, in order
UnitStages == SelectSeq(ModuleList, LAMBDA m : m.kind = "Shard")

\* unit[0], adapter to context[1], unit[1], ..., unit[n-1]
Alternating(shardList, deviceList) ==
    [j \in 1..(2 * Len(shardList) - 1) |->
        IF j % 2 = 1
        THEN ShardModule(shardList[(j + 1) \div 2], deviceList[(j + 1) \div 2])
        ELSE ToDeviceModule(deviceList[(j \div 2) + 1])]

\* C7: for lists of units and contexts of equal length, whether or not a
\* context appears more than once, construction does not fail and the pipeline
\* built holds len(shards) unit stages: unit[0], adapter to context[1],
\* unit[1], ..., unit[n-1].
BuildHoldsEveryUnit ==
    /\ Len(pipeline_shards) = Len(devices) => bpc # "failed"
    /\ bpc = "built" =>
          /\ Len(UnitStages) = Len(pipeline_shards)
          /\ ModuleList = Alternating(pipeline_shards, devices)

\* C8: with lists of different lengths construction fails at the assert:
\* no unit has been moved to a device and no module has been added.
AssertBeforeRelocation ==
    Len(pipeline_shards) # Len(devices) =>
        /\ bpc \in {"assert", "failed"}
        /\ \A i \in 1..Len(pipeline_shards) : placed[i] = "none"
        /\ modules = <<>>

\* construction has failed on lists of different lengths
BuildFailedOnLengths ==
    /\ bpc = "failed"
    /\ Len(pipeline_shards) > 0
    /\ Len(pipeline_shards) # Len(devices)


\* ------------------------- RPCPipeline.__init__ and parameter_rrefs
\* the names of the workers
WorkerNames == {"A", "B", "C"}

\* the units a worker can be given: the two of forward and one with a
\* parameter that is used in two places
RPCUnits == UnitNames \cup {"tied"}

\* the parameters of a unit as the attributes that hold them, in declaration
\* order; "tied" holds the same parameter in its first and its last attribute
ParameterSlots(u) ==
    CASE u = "mul2" -> <<"weight">>
      [] u = "add1" -> <<"weight", "bias">>
      [] u = "tied" -> <<"embedding", "bias", "embedding">>
      [] OTHER -> <<>>

\* the values the two dicts hold for a worker: SingleProcessPipelineRPC takes
\* a list of units and a list of devices, the other classes one of each
ShardValues(cls) ==
    IF cls = "SingleProcessPipelineRPC" THEN {<<u>> : u \in RPCUnits} ELSE RPCUnits

DeviceValues(cls) ==
    IF cls = "SingleProcessPipelineRPC" THEN {<<d>> : d \in BuildDevices} ELSE BuildDevices

\* dict.keys() in iteration order, and as the set == compares
KeyList(items) == [j \in 1..Len(items) |-> items[j][1]]

KeySet(items) == {items[j][1] : j \in 1..Len(items)}

\* a dict with at most n keys: its items in insertion order, keys distinct
Dicts(V, n) ==
    {items \in SeqsUpTo(WorkerNames \X V, n) : Cardinality(KeySet(items)) = Len(items)}

\* d[key]
Lookup(items, key) == items[CHOOSE j \in 1..Len(items) : items[j][1] = key][2]

InitRPC ==
    /\ remote_base_class \in Classes
    /\ workers_to_shards \in Dicts(ShardValues(remote_base_class), MaxWorkers)
    /\ workers_to_devices \in Dicts(DeviceValues(remote_base_class), MaxWorkers)
    /\ rpc_pc = "assert"
    /\ actors = <<>>
    /\ remote_params = <<>>
    /\ pI = 0
    /\ returned_params = <<>>
    /\ previous_params = <<>>
    /\ shards = <<>>
    /\ IdleForward
    /\ IdleBuild

\* the element of the list comprehension for the j-th key with the device taken
\* from the j-th item of workers_to_devices
ActorForByPosition(shardItems, deviceItems, cls, j) ==
    Remote(KeyList(shardItems)[j], cls, shardItems[j][2], deviceItems[j][2])

\* the element of the list comprehension for the j-th key of workers_to_shards
ActorFor(shardItems, deviceItems, cls, j) ==
    Remote(KeyList(shardItems)[j], cls,
           Lookup(shardItems, KeyList(shardItems)[j]),
           Lookup(deviceItems, KeyList(shardItems)[j]))

\* super().__init__(), self.split_size = split_size and the assert on the keys
RPCAssert ==
    /\ rpc_pc = "assert"
    /\ rpc_pc' = IF KeySet(workers_to_shards) = KeySet(workers_to_devices)
                 THEN "deploy" ELSE "failed"
    /\ UNCHANGED <<workers_to_shards, workers_to_devices, remote_base_class,
                   actors, remote_params, pI, returned_params>>
    /\ UNCHANGED previous_params
    /\ UNCHANGED <<shards, fwdVars, buildVars>>

\* one rpc.remote of the list comprehension
Deploy ==
    /\ rpc_pc = "deploy"
    /\ Len(actors) < Len(workers_to_shards)
    /\ actors' = Append(actors, ActorFor(workers_to_shards, workers_to_devices,
                                         remote_base_class, Len(actors) + 1))
    /\ UNCHANGED <<workers_to_shards, workers_to_devices, remote_base_class,
                   rpc_pc, remote_params, pI, returned_params>>
    /\ UNCHANGED previous_params
    /\ UNCHANGED <<shards, fwdVars, buildVars>>

\* the list is complete and is assigned to self.shards; every actor made its
\* own free lock in its __init__
Constructed ==
    /\ rpc_pc = "deploy"
    /\ Len(actors) = Len(workers_to_shards)
    /\ shards' = actors
    /\ lock' = [j \in 1..Len(actors) |-> FALSE]
    /\ rpc_pc' = "constructed"
    /\ UNCHANGED <<workers_to_shards, workers_to_devices, remote_base_class,
                   actors, remote_params, pI, returned_params, previous_params>>
    /\ UNCHANGED <<split_size, xs, opc, micro, curK, curI, x_rref, out_futures,
                   result, inv, log, donelog, hung>>
    /\ UNCHANGED buildVars

RECURSIVE Dedupe(_)
\* the elements of a list without the later occurrences of an element
Dedupe(l) ==
    IF l = <<>>
    THEN <<>>
    ELSE LET front == Dedupe(SubSeq(l, 1, Len(l) - 1))
         IN  IF \E j \in 1..Len(front) : front[j] = l[Len(l)]
             THEN front
             ELSE Append(front, l[Len(l)])

RECURSIVE SlotsFrom(_, _)
\* the parameters the modules from the j-th on hold, as <<module, attribute>>
SlotsFrom(mods, j) ==
    IF j > Len(mods)
    THEN <<>>
    ELSE LET slots == IF mods[j].module.kind = "Shard"
                      THEN ParameterSlots(mods[j].module.unit)
                      ELSE <<>>
         IN  [q \in 1..Len(slots) |-> <<j, slots[q]>>] \o SlotsFrom(mods, j + 1)

\* self.parameters(): every parameter of the modules once, in declaration order
Parameters(actor) == Dedupe(SlotsFrom(actor.underlying, 1))

\* [RRef(p) for p in self.parameters()] of an actor
ParameterRrefs(actor) ==
    [q \in 1..Len(Parameters(actor)) |->
        [owner |-> actor.worker, param |-> Parameters(actor)[q]]]

\* a list that gets the new items in front
ExtendFront(l, items) == items \o l

\* list.extend
Extend(l, items) == l \o items

\* parameter_rrefs can be called: after __init__, and again after it returned
CanCallParams ==
    \/ rpc_pc = "constructed"
    \/ rpc_pc = "collected" /\ Len(previous_params) + 1 < MaxParamCalls

\* the returns of the calls so far, when the next call starts
EarlierReturns ==
    IF rpc_pc = "collected" THEN Append(previous_params, returned_params) ELSE previous_params

\* a parameter_rrefs that goes on with the list of the call before
ParamStartKeep ==
    /\ CanCallParams
    /\ remote_params' = remote_params
    /\ previous_params' = EarlierReturns
    /\ pI' = 1
    /\ rpc_pc' = "params"
    /\ UNCHANGED <<workers_to_shards, workers_to_devices, remote_base_class,
                   actors, returned_params>>
    /\ UNCHANGED <<shards, fwdVars, buildVars>>

\* a call of parameter_rrefs starts: remote_params = []
ParamStart ==
    /\ CanCallParams
    /\ remote_params' = <<>>
    /\ previous_params' = EarlierReturns
    /\ pI' = 1
    /\ rpc_pc' = "params"
    /\ UNCHANGED <<workers_to_shards, workers_to_devices, remote_base_class,
                   actors, returned_params>>
    /\ UNCHANGED <<shards, fwdVars, buildVars>>

\* remote_params.extend(shard.remote().parameter_rrefs().to_here()) for one shard
ParamStep ==
    /\ rpc_pc = "params"
    /\ pI <= Len(shards)
    /\ remote_params' = Extend(remote_params, ParameterRrefs(shards[pI]))
    /\ pI' = pI + 1
    /\ UNCHANGED <<workers_to_shards, workers_to_devices, remote_base_class,
                   rpc_pc, actors, returned_params>>
    /\ UNCHANGED previous_params
    /\ UNCHANGED <<shards, fwdVars, buildVars>>

\* return remote_params
ParamReturn ==
    /\ rpc_pc = "params"
    /\ pI > Len(shards)
    /\ returned_params' = remote_params
    /\ rpc_pc' = "collected"
    /\ UNCHANGED <<workers_to_shards, workers_to_devices, remote_base_class,
                   actors, remote_params, pI>>
    /\ UNCHANGED previous_params
    /\ UNCHANGED <<shards, fwdVars, buildVars>>

NextRPC ==
    \/ RPCAssert
    \/ Deploy
    \/ Constructed
    \/ ParamStart
    \/ ParamStep
    \/ ParamReturn

SpecRPC == InitRPC /\ [][NextRPC]_vars

\* __init__ has returned
AfterInit == rpc_pc \in {"constructed", "params", "collected"}

\* the unit(s) and the device(s) an actor was built from
ActorShard(actor) ==
    IF actor.cls = "SingleProcessPipelineRPC"
    THEN [j \in 1..Len(actor.devices) |-> actor.underlying[2 * j - 1].module.unit]
    ELSE actor.underlying[1].module.unit

ActorDevice(actor) ==
    IF actor.cls = "SingleProcessPipelineRPC" THEN actor.devices ELSE actor.device

\* the state part of C9
DeployedPerLocation ==
    /\ KeySet(workers_to_shards) # KeySet(workers_to_devices) =>
          /\ rpc_pc \in {"assert", "failed"}
          /\ actors = <<>>
          /\ shards = <<>>
    /\ AfterInit =>
          /\ Len(actors) = Cardinality(KeySet(workers_to_devices))
          /\ shards = actors
          /\ \A j \in 1..Len(shards) :
                /\ shards[j].worker = workers_to_shards[j][1]
                /\ shards[j].cls = remote_base_class
                /\ ActorShard(shards[j]) = workers_to_shards[j][2]
                /\ \E d \in 1..Len(workers_to_devices) :
                      /\ workers_to_devices[d][1] = shards[j].worker
                      /\ workers_to_devices[d][2] = ActorDevice(shards[j])

\* C9: when the key sets of the two dicts differ, construction fails and no
\* actor is deployed; otherwise one actor is deployed per location, from that
\* location's unit and context, self.shards holds them in the iteration order
\* of workers_to_shards, so there are as many shards as locations, and
\* self.shards does not change once __init__ has returned.
OneActorPerLocation ==
    /\ []DeployedPerLocation
    /\ [][AfterInit => shards' = shards]_vars

\* parameter_rrefs has gone over a pipeline of two shards built from dicts
\* that list the two workers in different orders and give them different devices
CollectedFromReorderedDicts ==
    /\ rpc_pc = "collected"
    /\ Len(shards) = 2
    /\ workers_to_devices[1][1] = workers_to_shards[2][1]
    /\ workers_to_devices[1][2] # workers_to_devices[2][2]

\* the index of the shard that owns a handle
ShardIndex(handle) == CHOOSE i \in 1..Len(shards) : shards[i].worker = handle.owner

\* the handles of a list that shard i owns, as the parameters they refer to
ParamsOwnedBy(l, i) ==
    LET own == SelectSeq(l, LAMBDA handle : handle.owner = shards[i].worker)
    IN  [q \in 1..Len(own) |-> own[q].param]

\* the first place of a parameter among the attributes of shard i
FirstSlot(i, param) ==
    LET all == SlotsFrom(shards[i].underlying, 1)
    IN  CHOOSE q \in 1..Len(all) : all[q] = param /\ \A r \in 1..(q - 1) : all[r] # param

\* C10: what parameter_rrefs returns is one flat list in which the handles of
\* shard i come before those of shard i+1, in which every shard has every one
\* of its parameters, in the order of declaration, and in which no handle
\* appears twice.
ParamsInShardOrder ==
    rpc_pc = "collected" =>
        /\ \A p, q \in 1..Len(returned_params) :
              p < q => ShardIndex(returned_params[p]) <= ShardIndex(returned_params[q])
        /\ \A p, q \in 1..Len(returned_params) :
              p # q => returned_params[p] # returned_params[q]
        /\ \A i \in 1..Len(shards) :
              LET own == ParamsOwnedBy(returned_params, i)
                  all == SlotsFrom(shards[i].underlying, 1)
              IN  /\ \A r \in 1..Len(all) : \E q \in 1..Len(own) : own[q] = all[r]
                  /\ \A q \in 1..Len(own) : \E r \in 1..Len(all) : own[q] = all[r]
                  /\ \A p, q \in 1..Len(own) :
                        p < q => FirstSlot(i, own[p]) < FirstSlot(i, own[q])

\* parameter_rrefs returned the handles of two shards, the first of which
\* holds one parameter in two attributes
CollectedFromTwoShards ==
    /\ rpc_pc = "collected"
    /\ Len(shards) = 2
    /\ shards[1].underlying[1].module.unit = "tied"
    /\ Len(returned_params) >= 3


\* the parameters the handles of a list refer to, with their owners
Referents(l) == [q \in 1..Len(l) |-> <<l[q].owner, l[q].param>>]

\* the parameters the shards hold, with their owners, in pipeline order
HeldParameters ==
    [i \in 1..Len(shards) |->
        LET ps == Parameters(shards[i])
        IN  [q \in 1..Len(ps) |-> <<shards[i].worker, ps[q]>>]]

\* the state part of C11
SameParamsEveryCall ==
    rpc_pc = "collected" =>
        LET held == HeldParameters
            refs == Referents(returned_params)
        IN  /\ \A c \in 1..Len(previous_params) : Referents(previous_params[c]) = refs
            /\ \A q \in 1..Len(refs) :
                  \E i \in 1..Len(held) : \E r \in 1..Len(held[i]) : held[i][r] = refs[q]

\* C11: a second call of parameter_rrefs returns handles to the same
\* parameters in the same order as the first, every handle refers to a
\* parameter its shard still holds, and no step of parameter_rrefs changes the
\* shards (the parameters a shard holds are those of its modules) or any
\* stage lock.
ParamsIdempotent ==
    /\ []SameParamsEveryCall
    /\ [][AfterInit => /\ shards' = shards
                       /\ actors' = actors
                       /\ lock' = lock]_vars

\* parameter_rrefs has returned a second time, on a pipeline with parameters
CollectedTwice ==
    /\ rpc_pc = "collected"
    /\ Len(previous_params) >= 1
    /\ Len(shards) = 2
    /\ Len(returned_params) >= 2
    /\ lock = <<FALSE, FALSE>>


\* the calls forward has issued when it is about to call shard curI for
\* micro-batch curK: the chains of the micro-batches before, and the shards
\* before curI of this one
DispatchedSoFar == {h \in Calls : h[1] < curK \/ (h[1] = curK /\ h[2] < curI)}

\* C12: while forward dispatches, the calls issued are the whole chains of the
\* micro-batches before the current one, in split order, and the start of the
\* current chain; the next dispatch is never held up by a pending result and no
\* value has been taken; when forward waits, every call of every chain has
\* been issued and the futures are those of the micro-batches in split order.
DispatchNeverBlocks ==
    /\ opc = "dispatch" =>
          /\ {h \in Calls : inv[h].st # "idle"} = DispatchedSoFar
          /\ out_futures = [k \in 1..(curK - 1) |-> FutureOf(k)]
          /\ ENABLED (DispatchRemote \/ DispatchAsync)
          /\ result = NoTensor
    /\ opc \in {"wait", "returned", "raised"} =>
          /\ \A h \in Calls : inv[h].st # "idle"
          /\ out_futures = [k \in 1..NMicro |-> FutureOf(k)]
    /\ opc # "returned" => result = NoTensor

\* forward has reached the wait with every call of two chains of two shards
\* issued and none of them started
AllDispatchedNoneStarted ==
    /\ opc = "wait"
    /\ NShards = 2
    /\ NMicro = 2
    /\ \A h \in Calls : inv[h].st = "issued"


\* the call is about to enter "with self._lock"
AtLockEntry(h) ==
    inv[h].st = IF HostRelocating(shards[h[2]].cls) THEN "fetched" ELSE "issued"

\* the call is running self.underlying
Computing(h) ==
    inv[h].st = IF HostRelocating(shards[h[2]].cls) THEN "locked" ELSE "lockedFetched"

\* C13: there is one lock per shard and a call only needs the lock of its own
\* shard: a call that is about to enter the locked block of a shard whose lock
\* is free can enter it, whatever locks the other shards hold.
LockPerStage ==
    /\ opc # "split" => Len(lock) = NShards
    /\ \A h \in Calls : (AtLockEntry(h) /\ ~lock[h[2]]) => ENABLED Acquire(h)

\* pipeline overlap: shard 2 computes micro-batch 1 while shard 1 computes
\* micro-batch 2
PipelineOverlap ==
    /\ NShards >= 2
    /\ NMicro >= 2
    /\ Computing(<<1, 2>>)
    /\ Computing(<<2, 1>>)
    /\ lock[1]
    /\ lock[2]

\* the place of a call in the log, 0 when self.underlying has not been called
LogIndex(h) ==
    IF \E j \in 1..Len(log) : log[j] = h
    THEN CHOOSE j \in 1..Len(log) : log[j] = h
    ELSE 0

\* the call has taken the value of its input handle
HasInput(h) == inv[h].st \in {"fetched", "lockedFetched", "unlocked", "done"} \/ Computing(h)

\* C14: the call of stage i > 1 for micro-batch k is given the handle of stage
\* i-1's result for k; it has its input, and runs its unit, only once stage
\* i-1 has finished micro-batch k, and the input it works on is the value the
\* stage itself took from that handle; forward takes no value before its wait.
StageAfterUpstream ==
    /\ \A h \in Calls :
          h[2] >= 2 =>
             LET up == <<h[1], h[2] - 1>>
             IN  /\ inv[h].st # "idle" => inv[h].arg = up
                 /\ HasInput(h) =>
                       /\ inv[up].st = "done"
                       /\ inv[h].x.rows = inv[up].out.rows
                 /\ LogIndex(h) > 0 =>
                       /\ inv[up].st = "done"
                       /\ 0 < LogIndex(up)
                       /\ LogIndex(up) < LogIndex(h)
    /\ opc \in {"dispatch", "wait"} => result = NoTensor

\* shard 2 computes micro-batch 1 after shard 1 finished it, and the call of
\* shard 2 for micro-batch 2 is issued while shard 1 has no result for it yet
IssuedBeforeResultExists ==
    /\ NShards >= 2
    /\ NMicro >= 2
    /\ inv[<<1, 1>>].st = "done"
    /\ Computing(<<1, 2>>)
    /\ inv[<<2, 2>>].st = "issued"
    /\ inv[<<2, 1>>].st \in {"issued", "fetched", "locked", "lockedFetched"}


\* C15: in every class of stage the lock covers the computation only: a call
\* that holds the lock of its stage has realized its input before it took the
\* lock, so its input handle holds a value and the stage never holds the lock
\* while the stage before is still working on that value; a call that has its
\* output but has not returned it no longer holds the lock.
LockCoversOnlyCompute ==
    \A h \in Calls :
        /\ inv[h].st \in InLock =>
              /\ Ready(inv[h].arg)
              /\ inv[h].x # NoTensor
        /\ inv[h].st = "unlocked" =>
              \/ ~lock[h[2]]
              \/ \E g \in CallsOf(h[2]) : g # h /\ inv[g].st \in InLock


\* ------------------------------------------------ a call that never completes
\* forward is called on a pipeline in which self.underlying may never return
\* for some of the calls
InitHung ==
    /\ ForwardInputs(MaxHungCalls, 0..MaxHung) /\ ForwardStart
    /\ IdleBuild
    /\ IdleRPC

SpecHung == InitHung /\ [][Next]_vars

\* call h has entered self.underlying and will never leave it
Stalled(h) == h \in hung /\ h \in Calls /\ Computing(h)

\* forward has come back to its caller
ForwardEnded == opc \in {"returned", "raised"}

\* C17 as stated: once a call of some micro-batch is in a computation that
\* never completes, forward has not come back and never does, neither with an
\* output nor with a failure.
HungCallStallsForward == (\E h \in Calls : Stalled(h)) => ~ForwardEnded

\* C17: a call that never completes stays in its computation for ever,
\* and so do the future of its micro-batch and the collective await of it:
\* forward never returns an output, and it comes back at all only by raising
\* the error that the future of another micro-batch holds.
HungCallStallsOutput ==
    /\ [](\A h \in Calls : Stalled(h) =>
              /\ ~Ready(FutureOf(h[1]))
              /\ ~Broken(FutureOf(h[1]))
              /\ opc # "returned"
              /\ opc = "raised" =>
                    \E k \in 1..NMicro : k # h[1] /\ Broken(FutureOf(k)))
    /\ [][\A h \in Calls : Stalled(h) => Stalled(h)']_vars

\* a call is in a computation that never completes, every other call that can
\* finish has finished, and forward is in the collective await for good
AwaitStalledForEver ==
    /\ \E h \in Calls : Stalled(h)
    /\ opc = "wait"
    /\ ~ENABLED Next


\* ------------------------------------------------ termination
\* forward is called on a pipeline all of whose calls complete
InitLive ==
    /\ ForwardInputs(MaxLiveCalls, {0}) /\ ForwardStart
    /\ IdleBuild
    /\ IdleRPC

\* the threads of the orchestrator and of the workers keep running: as long as
\* some step of forward or of a call can be taken, a step is taken
SpecLive == InitLive /\ [][Next]_vars /\ WF_vars(Next)

\* every micro-batch has its future and the future holds a value or an error,
\* and no call is left on the way
EveryMicroBatchSettled ==
    /\ opc \notin {"split", "dispatch"}
    /\ Len(out_futures) = NMicro
    /\ \A k \in 1..NMicro : Ready(FutureOf(k)) \/ Broken(FutureOf(k))
    /\ \A h \in Calls : inv[h].st \in {"done", "failed"}
    /\ \A i \in 1..NShards : ~lock[i]

\* C16: when every call completes and the threads keep running, every
\* micro-batch ends completed or failed and forward comes back, with the
\* output or with the error: the locks of the stages and the chained handles
\* do not deadlock, with either class of actor.
ForwardTerminates == <>[](ForwardEnded /\ EveryMicroBatchSettled)

\* a forward over two RemoteBaseCUDARPC stages and two micro-batches has
\* returned its output and nothing is left to run
TwoStagePipelineDrained ==
    /\ NShards = 2
    /\ NMicro = 2
    /\ \A i \in 1..NShards : shards[i].cls = "RemoteBaseCUDARPC"
    /\ opc = "returned"
    /\ EveryMicroBatchSettled
    /\ ~ENABLED Next


\* ------------------------------------------------ order within a stage
\* shard i called self.underlying for micro-batch k + 1 before it did for
\* micro-batch k
ComputedOutOfOrder(i, k) ==
    /\ 0 < LogIndex(<<k + 1, i>>)
    /\ \/ LogIndex(<<k, i>>) = 0
       \/ LogIndex(<<k + 1, i>>) < LogIndex(<<k, i>>)

SomeStageOutOfOrder ==
    \E i \in 1..NShards : \E k \in 1..(NMicro - 1) : ComputedOutOfOrder(i, k)

\* C18: the order in which the micro-batches enter the locked block of a stage
\* is not the dispatch order (the executions of the witness), and when a stage
\* has computed micro-batch k + 1 before micro-batch k the output forward
\* returns is still in submission order: row j of the output is the pipeline
\* applied to row j of the batch.
OutOfOrderStageKeepsOutputOrder ==
    (opc = "returned" /\ SomeStageOutOfOrder) =>
        /\ Len(result.rows) = Len(xs.rows)
        /\ \A j \in 1..Len(xs.rows) : result.rows[j] = ChainRow(NShards, xs.rows[j])

\* forward returned after both shards of a two-stage pipeline computed
\* micro-batch 2 before micro-batch 1
ReturnedAfterOutOfOrderStages ==
    /\ opc = "returned"
    /\ NShards = 2
    /\ NMicro = 2
    /\ ComputedOutOfOrder(1, 1)
    /\ ComputedOutOfOrder(2, 1)


\* ------------------------------------------------ devices of the values
\* the call has its input: x is assigned
HasX(h) ==
    IF HostRelocating(shards[h[2]].cls)
    THEN inv[h].st \in {"fetched", "locked", "unlocked", "done"}
    ELSE inv[h].st \in {"lockedFetched", "done"}

\* the call has the output of self.underlying
HasOut(h) == inv[h].st \in {"unlocked", "done"}

\* C19: in RemoteBaseCPURPC and SingleProcessPipelineRPC the input the unit is
\* called on is on the device of the stage (the first one, when it has a
\* list) and the value the call returns, to the next stage or to forward, is
\* on the host; in RemoteBaseCUDARPC the input is the value of the handle as
\* it is and the output is returned on the device the unit left it on.
RelocationPerClass ==
    \A h \in Calls :
        IF HostRelocating(shards[h[2]].cls)
        THEN /\ HasX(h) => inv[h].x = To(ValueOf(inv[h].arg), InputDevice(shards[h[2]]))
             /\ Computing(h) =>
                   /\ inv[h].x.ctx = InputDevice(shards[h[2]])
                   /\ inv[h].x.ctx = shards[h[2]].underlying[1].module.device
             /\ Ready(h) => /\ inv[h].out.ctx = "cpu"
                            /\ inv[h].out.rows = Underlying(shards[h[2]], inv[h].x).rows
        ELSE /\ HasX(h) => inv[h].x = ValueOf(inv[h].arg)
             /\ HasOut(h) => inv[h].out = Underlying(shards[h[2]], inv[h].x)
             /\ HasOut(h) => inv[h].out.ctx = ValueOf(inv[h].arg).ctx

\* the second stage of a RemoteBaseCPURPC pipeline took the value the first
\* stage returned on the host, computed on its own device and returned
ComputedOnDeviceReturnedOnHost ==
    /\ NShards = 2
    /\ shards[2].cls = "RemoteBaseCPURPC"
    /\ <<1, 2>> \in Calls
    /\ inv[<<1, 2>>].st = "done"
    /\ ValueOf(inv[<<1, 2>>].arg).ctx = "cpu"
    /\ inv[<<1, 2>>].x.ctx = "cuda:1"
    /\ inv[<<1, 2>>].out.ctx = "cpu"

====
